---- MODULE Spec2Model ----
(***************************************************************************)
(* Codon usage analyzer (main.py): the pipeline                            *)
(*   clean_sequence -> calculate_gc_content -> split_into_codons           *)
(*                  -> translate_codons -> count_codon_usage               *)
(* A Python str is a sequence of one-character strings.                    *)
(***************************************************************************)
EXTENDS Integers, Sequences, FiniteSets, TLC

VARIABLES seq, cleaned_seq, gc_content, codons, protein, codon_count, pc

vars == <<seq, cleaned_seq, gc_content, codons, protein, codon_count, pc>>

(* ---------------- bounds of the model ---------------- *)

\* longest raw input enumerated over the whole alphabet
MaxLen == 4

\* longest raw input made of whole codons of CodonPool
MaxCodons == 3

(* ---------------- characters and strings ---------------- *)

\* "ß" is the character whose str.upper() is the two characters "SS"
Alphabet == {"a", "g", "C", "T", "N", " ", "\n", "\t", "ß"}

LowerLetters == <<"a", "c", "g", "n", "t", "z">>

UpperLetters == <<"A", "C", "G", "N", "T", "Z">>

\* str.upper() of one character, as a string
UpperChar(ch) ==
  IF ch = "ß" THEN <<"S", "S">>
  ELSE IF \E i \in 1..Len(LowerLetters) : LowerLetters[i] = ch
       THEN <<UpperLetters[CHOOSE i \in 1..Len(LowerLetters) : LowerLetters[i] = ch]>>
       ELSE <<ch>>

RECURSIVE upper(_)
\* str.upper(): the concatenation of the characters' upper-case mappings
upper(s) == IF s = <<>> THEN <<>> ELSE UpperChar(Head(s)) \o upper(Tail(s))

RECURSIVE replace(_, _)
\* str.replace(old, ""), old a single character: scan left to right, skip matches
replace(s, old) ==
  IF s = <<>> THEN <<>>
  ELSE IF Head(s) = old THEN replace(Tail(s), old)
       ELSE <<Head(s)>> \o replace(Tail(s), old)

\* the slice s[:n] for 0 <= n
SliceTo(s, n) == IF n >= Len(s) THEN s ELSE SubSeq(s, 1, n)

\* the slice s[i:j] for 0 <= i <= j (Python clamps j to len(s))
Slice(s, i, j) ==
  LET hi == IF j > Len(s) THEN Len(s) ELSE j
  IN IF i >= hi THEN <<>> ELSE SubSeq(s, i + 1, hi)

(* ---------------- clean_sequence ---------------- *)

\* clean_sequence without the trim to a multiple of 3
clean_sequence_keep_tail(s) == replace(replace(upper(s), " "), "\n")

\* clean_sequence trimming with seq[:-(len(seq) % 3)], which is seq[:0] when
\* the length is a multiple of 3
clean_sequence_negative_slice(s) ==
  LET t == replace(replace(upper(s), " "), "\n")
  IN SliceTo(t, IF Len(t) % 3 = 0 THEN 0 ELSE Len(t) - (Len(t) % 3))

\* clean_sequence removing the tabs too
clean_sequence_strip_all(s) ==
  LET t == replace(replace(replace(upper(s), " "), "\n"), "\t")
  IN SliceTo(t, Len(t) - (Len(t) % 3))

clean_sequence(s) ==
  LET t == replace(replace(upper(s), " "), "\n")
  IN SliceTo(t, Len(t) - (Len(t) % 3))

(* ---------------- split_into_codons ---------------- *)

\* range(0, n, 3) as the sequence of its values
Range3(n) == [k \in 1..((n + 2) \div 3) |-> 3 * (k - 1)]

\* split_into_codons slicing seq[i:i+2]
split_into_codons_pairs(s) ==
  LET starts == Range3(Len(s))
  IN [k \in 1..Len(starts) |-> Slice(s, starts[k], starts[k] + 2)]

split_into_codons(s) ==
  LET starts == Range3(Len(s))
  IN [k \in 1..Len(starts) |-> Slice(s, starts[k], starts[k] + 3)]

(* ---------------- the codon table ---------------- *)

Bases == <<"T", "C", "A", "G">>

BaseIndex(b) == CHOOSE i \in 1..4 : Bases[i] = b

\* the standard genetic code, codons ordered TTT, TTC, TTA, TTG, TCT, ...
\* "_" is the stop symbol (the key AA_ABBREV and AA_FULL name 'Stop')
AminoAcids ==
  << "F", "F", "L", "L", "S", "S", "S", "S", "Y", "Y", "_", "_", "C", "C", "_", "W",
     "L", "L", "L", "L", "P", "P", "P", "P", "H", "H", "Q", "Q", "R", "R", "R", "R",
     "I", "I", "I", "M", "T", "T", "T", "T", "N", "N", "K", "K", "S", "S", "R", "R",
     "V", "V", "V", "V", "A", "A", "A", "A", "D", "D", "E", "E", "G", "G", "G", "G" >>

\* the dictionary CODON_TABLE: the 64 triplets over T, C, A, G, each mapped to
\* a one-character string
CODON_TABLE ==
  [c \in {<<Bases[i], Bases[j], Bases[k]>> : i, j, k \in 1..4} |->
     <<AminoAcids[16 * (BaseIndex(c[1]) - 1) + 4 * (BaseIndex(c[2]) - 1)
                  + BaseIndex(c[3])]>>]

\* dict.get(key, default)
Get(d, key, default) == IF key \in DOMAIN d THEN d[key] ELSE default

STOP_CODONS == {<<"T", "A", "A">>, <<"T", "A", "G">>, <<"T", "G", "A">>}

(* ---------------- translate_codons ---------------- *)

RECURSIVE join(_)
\* ''.join(parts)
join(parts) == IF parts = <<>> THEN <<>> ELSE Head(parts) \o join(Tail(parts))

\* translate_codons leaving out the codons the table does not have
translate_codons_skip_unknown(cs) ==
  join([k \in 1..Len(cs) |-> Get(CODON_TABLE, cs[k], <<>>)])

\* translate_codons with the stop symbol as the default
translate_codons_stop_default(cs) ==
  join([k \in 1..Len(cs) |-> Get(CODON_TABLE, cs[k], <<"_">>)])

translate_codons(cs) ==
  join([k \in 1..Len(cs) |-> Get(CODON_TABLE, cs[k], <<"X">>)])

(* ---------------- count_codon_usage ---------------- *)

\* the empty defaultdict(int)
EmptyDict == [k \in {} |-> 0]

\* codon_count[codon] += 1 on a defaultdict(int)
Increment(d, k) ==
  IF k \in DOMAIN d THEN [d EXCEPT ![k] = @ + 1] ELSE d @@ (k :> 0 + 1)

RECURSIVE CountLoop(_, _)
\* the for loop of count_codon_usage, d the dictionary built so far
CountLoop(cs, d) ==
  IF cs = <<>> THEN d ELSE CountLoop(Tail(cs), Increment(d, Head(cs)))

\* count_codon_usage assigning 1 instead of adding 1
count_codon_usage_presence(cs) == [c \in {cs[k] : k \in 1..Len(cs)} |-> 1]

count_codon_usage(cs) == CountLoop(cs, EmptyDict)

(* ---------------- calculate_gc_content ---------------- *)

RECURSIVE count(_, _)
\* str.count(ch), ch a single character
count(s, ch) ==
  IF s = <<>> THEN 0
  ELSE (IF Head(s) = ch THEN 1 ELSE 0) + count(Tail(s), ch)

\* the integer nearest to n / d, ties to the even one (Python's round); a tie
\* of 10000 * n / d needs d to be a multiple of 32, beyond the inputs here, so
\* the float's representation error never decides the result
RoundHalfEven(n, d) ==
  LET q == n \div d
      r == n % d
  IN IF 2 * r < d THEN q
     ELSE IF 2 * r > d THEN q + 1
     ELSE IF q % 2 = 0 THEN q ELSE q + 1

\* round(((n)/d)*100, 2): a float, held as its number of hundredths; the
\* division raises ZeroDivisionError when d is 0
PercentRounded(n, d) ==
  IF d = 0 THEN [kind |-> "ZeroDivisionError", val |-> 0]
  ELSE [kind |-> "float", val |-> RoundHalfEven(10000 * n, d)]

\* calculate_gc_content whose guard tests g + c instead of total
calculate_gc_content_gc_guard(s) ==
  LET g == count(s, "G")
      c == count(s, "C")
      total == Len(s)
  IN IF g + c = 0 THEN [kind |-> "int", val |-> 0]
     ELSE PercentRounded(g + c, total)

\* calculate_gc_content counting 'G' only
calculate_gc_content_only_g(s) ==
  LET g == count(s, "G")
      total == Len(s)
  IN IF total = 0 THEN [kind |-> "int", val |-> 0]
     ELSE PercentRounded(g, total)

\* calculate_gc_content without the guard
calculate_gc_content_no_guard(s) ==
  PercentRounded(count(s, "G") + count(s, "C"), Len(s))

calculate_gc_content(s) ==
  LET g == count(s, "G")
      c == count(s, "C")
      total == Len(s)
  IN IF total = 0 THEN [kind |-> "int", val |-> 0]
     ELSE PercentRounded(g + c, total)

(* ---------------- the inputs ---------------- *)

\* all strings over Alphabet of length at most n
StringsUpTo(n) == UNION {[1..m -> Alphabet] : m \in 0..n}

CodonPool ==
  {<<"A", "T", "G">>, <<"A", "A", "A">>, <<"T", "A", "G">>, <<"N", "N", "N">>,
   <<"G", "G", "G">>, <<"C", "C", "C">>, <<"T", "A", "A">>, <<"T", "G", "A">>}

\* the strings that are at most n codons of CodonPool, one after the other
CodonStrings(n) == {join(cs) : cs \in UNION {[1..m -> CodonPool] : m \in 0..n}}

\* the inputs the documentation of the program works through
Scenarios ==
  {<<"a", "t", "g", "A", "A", "A", " ", "T", "A", "G">>,
   <<"A", "T", "G", "C", "A">>,
   <<"G", "G", "G", "C", "C", "C">>}

RawInputs == StringsUpTo(MaxLen) \cup CodonStrings(MaxCodons) \cup Scenarios

(* ---------------- main ---------------- *)

\* a local variable of main that is not bound yet
Unbound == <<>>

Init ==
  /\ seq \in RawInputs
  /\ cleaned_seq = Unbound
  /\ gc_content = [kind |-> "unbound", val |-> 0]
  /\ codons = Unbound
  /\ protein = Unbound
  /\ codon_count = Unbound
  /\ pc = "input"

CleanSequence ==
  /\ pc = "input"
  /\ cleaned_seq' = clean_sequence(seq)
  /\ pc' = "cleaned"
  /\ UNCHANGED <<seq, gc_content, codons, protein, codon_count>>

CalculateGcContent ==
  /\ pc = "cleaned"
  /\ gc_content' = calculate_gc_content(cleaned_seq)
  \* an exception ends main
  /\ pc' = IF gc_content'.kind = "ZeroDivisionError" THEN "raised" ELSE "gc"
  /\ UNCHANGED <<seq, cleaned_seq, codons, protein, codon_count>>

SplitIntoCodons ==
  /\ pc = "gc"
  /\ codons' = split_into_codons(cleaned_seq)
  /\ pc' = "split"
  /\ UNCHANGED <<seq, cleaned_seq, gc_content, protein, codon_count>>

TranslateCodons ==
  /\ pc = "split"
  /\ protein' = translate_codons(codons)
  /\ pc' = "translated"
  /\ UNCHANGED <<seq, cleaned_seq, gc_content, codons, codon_count>>

CountCodonUsage ==
  /\ pc = "translated"
  /\ codon_count' = count_codon_usage(codons)
  /\ pc' = "counted"
  /\ UNCHANGED <<seq, cleaned_seq, gc_content, codons, protein>>

Next ==
  \/ CleanSequence
  \/ CalculateGcContent
  \/ SplitIntoCodons
  \/ TranslateCodons
  \/ CountCodonUsage

Spec == Init /\ [][Next]_vars

\* the positions of main at which each local is bound
AfterClean == pc \in {"cleaned", "gc", "split", "translated", "counted"}

AfterGc == pc \in {"gc", "split", "translated", "counted"}

AfterSplit == pc \in {"split", "translated", "counted"}

AfterTranslate == pc \in {"translated", "counted"}

AfterCount == pc = "counted"

(* ---------------- helpers of the properties ---------------- *)

\* the set of elements of a sequence
Elems(s) == {s[k] : k \in 1..Len(s)}

RECURSIVE SumValues(_, _)
\* the sum of d[k] over the keys k in ks
SumValues(d, ks) ==
  IF ks = {} THEN 0
  ELSE LET k == CHOOSE x \in ks : TRUE IN d[k] + SumValues(d, ks \ {k})

\* the characters clean_sequence is to delete
IsKept(ch) == ch \notin {" ", "\n"}

\* no character of s grows under str.upper()
UpperKeepsLength(s) == \A k \in 1..Len(s) : Len(UpperChar(s[k])) = 1

\* the number of positions of s holding 'G' or 'C'
GcPositions(s) == Cardinality({k \in 1..Len(s) : s[k] \in {"G", "C"}})

Abs(x) == IF x < 0 THEN -x ELSE x

\* calculate_gc_content has returned or raised
GcFinished == pc \notin {"input", "cleaned"}

(* ---------------- C1 ---------------- *)

\* C1 (as stated): the cleaned sequence has a length that is a multiple of 3
\* and that is no greater than the length of the raw input.
C1_LengthNoGreaterThanRaw ==
  AfterClean => /\ Len(cleaned_seq) % 3 = 0
                /\ Len(cleaned_seq) <= Len(seq)

\* C1 (amended): the cleaned sequence has a length that is a multiple of 3 and
\* that is no greater than the length of the upper-cased raw input; it is no
\* greater than the length of the raw input when no character of the input
\* grows under upper().
C1_LengthMultipleOf3 ==
  AfterClean => /\ Len(cleaned_seq) % 3 = 0
                /\ Len(cleaned_seq) <= Len(upper(seq))
                /\ (UpperKeepsLength(seq) => Len(cleaned_seq) <= Len(seq))

\* a raw input whose partial last codon was dropped
C1_Witness ==
  /\ AfterClean
  /\ UpperKeepsLength(seq)
  /\ Len(cleaned_seq) = 3
  /\ Len(seq) = 4
  /\ IsKept(seq[4])

(* ---------------- C2 ---------------- *)

\* C2: a sequence whose length L is a multiple of 3 is split into exactly L/3
\* codons of 3 characters each, the k-th codon being characters 3k-2..3k of the
\* sequence, so that joining the codons in order gives the sequence back.
C2_SplitReconstructs ==
  (AfterSplit /\ Len(cleaned_seq) % 3 = 0) =>
     /\ 3 * Len(codons) = Len(cleaned_seq)
     /\ \A k \in 1..Len(codons) :
          /\ Len(codons[k]) = 3
          /\ \A j \in 1..3 : codons[k][j] = cleaned_seq[3 * (k - 1) + j]
     /\ join(codons) = cleaned_seq

\* a sequence split into several different codons
C2_Witness ==
  /\ AfterSplit
  /\ Len(codons) >= 3
  /\ codons[1] # codons[2]
  /\ codons[2] # codons[3]

(* ---------------- C3 ---------------- *)

\* C3: the keys of the frequency map are exactly the distinct codons of the
\* list, each mapped to its number of occurrences (at least 1), and the counts
\* add up to the length of the list.
C3_CountsAreOccurrences ==
  AfterCount =>
     /\ DOMAIN codon_count = Elems(codons)
     /\ \A c \in DOMAIN codon_count :
          /\ codon_count[c] = Cardinality({k \in 1..Len(codons) : codons[k] = c})
          /\ codon_count[c] >= 1
     /\ SumValues(codon_count, DOMAIN codon_count) = Len(codons)

\* a list with a repeated codon and another codon
C3_Witness ==
  /\ AfterCount
  /\ Cardinality(DOMAIN codon_count) >= 2
  /\ \E c \in DOMAIN codon_count : codon_count[c] >= 2

(* ---------------- C4 ---------------- *)

\* C4: the protein has exactly one symbol per codon, the k-th symbol being the
\* table's entry of the k-th codon, or 'X' when the table has none.
C4_ProteinLength ==
  AfterTranslate =>
     /\ Len(protein) = Len(codons)
     /\ \A k \in 1..Len(codons) :
          <<protein[k]>> = Get(CODON_TABLE, codons[k], <<"X">>)
     /\ (codons = <<<<"A", "T", "G">>, <<"A", "A", "A">>, <<"T", "A", "G">>>> => protein = <<"M", "K", "_">>)

\* a list holding codons of the table and a codon that is not in it
C4_Witness ==
  /\ AfterTranslate
  /\ Len(codons) >= 2
  /\ \E k \in 1..Len(codons) : codons[k] \notin DOMAIN CODON_TABLE
  /\ \E k \in 1..Len(codons) : codons[k] \in DOMAIN CODON_TABLE

(* ---------------- C5 ---------------- *)

\* C5: cleaning a cleaned sequence changes nothing.
C5_CleanIdempotent == AfterClean => clean_sequence(cleaned_seq) = cleaned_seq

\* a non-empty cleaned sequence that differs from its raw input
C5_Witness ==
  /\ AfterClean
  /\ cleaned_seq # <<>>
  /\ cleaned_seq # seq
  /\ Len(cleaned_seq) < Len(seq)

(* ---------------- C6 ---------------- *)

\* C6 (as stated): the GC content is 0 exactly when the sequence is empty.
C6_ZeroOnlyForEmpty ==
  GcFinished => /\ gc_content.kind \in {"int", "float"}
                /\ (gc_content.val = 0 <=> Len(cleaned_seq) = 0)

\* C6 (amended): the GC content is 0 whenever the sequence has no 'G' and no
\* 'C', which includes the empty sequence; the empty sequence is answered by
\* the guard (the integer 0, no division), and only the empty sequence is.
C6_ZeroWithoutGc ==
  GcFinished =>
     /\ gc_content.kind \in {"int", "float"}
     /\ (GcPositions(cleaned_seq) = 0 => gc_content.val = 0)
     /\ (gc_content.kind = "int" <=> Len(cleaned_seq) = 0)

\* a non-empty sequence without 'G' and 'C', whose GC content is 0.0
C6_Witness ==
  /\ AfterGc
  /\ Len(cleaned_seq) > 0
  /\ gc_content = [kind |-> "float", val |-> 0]

(* ---------------- C7 ---------------- *)

\* C7: "NNN" is not a key of the table; a codon that is not a key is
\* translated to 'X', which is not the symbol of the stop codons TAA, TAG and
\* TGA; translation does not raise.
C7_UnknownIsX ==
  /\ <<"N", "N", "N">> \notin DOMAIN CODON_TABLE
  /\ \A s \in STOP_CODONS : s \in DOMAIN CODON_TABLE /\ CODON_TABLE[s] # <<"X">>
  /\ pc # "raised"
  /\ AfterTranslate =>
       \A k \in 1..Len(codons) :
          /\ k <= Len(protein)
          /\ codons[k] \notin DOMAIN CODON_TABLE =>
               /\ protein[k] = "X"
               /\ \A s \in STOP_CODONS : <<protein[k]>> # CODON_TABLE[s]
          /\ codons[k] \in STOP_CODONS => protein[k] # "X"

\* "NNN" and a stop codon translated in one list
C7_Witness ==
  /\ AfterTranslate
  /\ \E k \in 1..Len(codons) : codons[k] = <<"N", "N", "N">>
  /\ \E k \in 1..Len(codons) : codons[k] \in STOP_CODONS

(* ---------------- C8 ---------------- *)

\* C8: the GC content, in hundredths of a percent, lies in 0..10000; for a
\* non-empty sequence it is the nearest hundredth to 100 * (G + C) / len, and
\* it is 100 when every character is 'G' or 'C'.
C8_GcPercentage ==
  AfterGc =>
     LET n == GcPositions(cleaned_seq)
         total == Len(cleaned_seq)
     IN /\ gc_content.val \in 0..10000
        /\ total > 0 => 2 * Abs(gc_content.val * total - 10000 * n) <= total
        /\ (total > 0 /\ n = total) => gc_content.val = 10000
        /\ cleaned_seq = <<"G", "G", "G", "C", "C", "C">> => gc_content.val = 10000

\* a sequence whose GC content, 2/3, is rounded up to 66.67
C8_Witness ==
  /\ AfterGc
  /\ Len(cleaned_seq) = 3
  /\ GcPositions(cleaned_seq) = 2
  /\ gc_content.val = 6667

(* ---------------- C9 ---------------- *)

\* C9: an empty raw input is cleaned to the empty sequence, and from an empty
\* cleaned sequence the pipeline yields GC content 0, no codon, the empty
\* protein and the empty frequency map, without raising.
C9_EmptyInput ==
  /\ (AfterClean /\ seq = <<>>) => cleaned_seq = <<>>
  /\ (pc # "input" /\ cleaned_seq = <<>>) =>
       /\ pc # "raised"
       /\ AfterGc => gc_content.val = 0 /\ gc_content.kind # "ZeroDivisionError"
       /\ AfterSplit => codons = <<>>
       /\ AfterTranslate => protein = <<>>
       /\ AfterCount => DOMAIN codon_count = {}

\* the end of the pipeline for a non-empty input that cleans to the empty one
C9_Witness ==
  /\ AfterCount
  /\ seq # <<>>
  /\ cleaned_seq = <<>>

(* ---------------- C10 ---------------- *)

====
